---- MODULE Spec2Model ----
(***************************************************************************)
(* CBB_Daily_Picks: the edge pipeline of model.py (compute_edges) and of   *)
(* run.py (_coerce_ratings, _coerce_odds, join_and_score).                 *)
(*                                                                         *)
(* Representation.                                                         *)
(*   - A Python str is a sequence of characters; a character is a string   *)
(*     of length one ("a", "&"), or the name of its code point for the     *)
(*     characters outside ASCII ("U+2013" is the en dash).                 *)
(*   - A float column holds points in tenths as an integer (120.0 is 1200, *)
(*     0.6 is 6).  A cell is a sequence of length at most one: <<v>> is    *)
(*     the number v and <<>> is NaN.  The sign of a float zero is not      *)
(*     represented.  A cell of an object column may also hold a value that *)
(*     is not a number (the str "N/A"): NonNumeric.                        *)
(*   - A DataFrame is a sequence of records, one record per row, in row    *)
(*     order.                                                              *)
(***************************************************************************)
EXTENDS Integers, Sequences, FiniteSets, TLC

VARIABLES ratings, odds, hca_points, edge_threshold, pc, run_ratings, run_odds, out,
          names, cleaned, recleaned, pair_keys

vars ==
  <<ratings, odds, hca_points, edge_threshold, pc, run_ratings, run_odds, out,
    names, cleaned, recleaned, pair_keys>>

\* The variables of the edge pipelines, and those of the calls of the name
\* functions (_clean, _pair_key) on their own.
pipeline_vars == <<ratings, odds, hca_points, edge_threshold, run_ratings, run_odds, out>>

name_vars == <<names, cleaned, recleaned, pair_keys>>

(***************************************************************************)
(* Characters                                                              *)
(***************************************************************************)
AsciiUpper == <<"A","B","C","D","E","F","G","H","I","J","K","L","M","N","O","P","Q","R","S","T","U","V","W","X","Y","Z">>

AsciiLower == <<"a","b","c","d","e","f","g","h","i","j","k","l","m","n","o","p","q","r","s","t","u","v","w","x","y","z">>

Digits == <<"0","1","2","3","4","5","6","7","8","9">>

Range(s) == {s[i] : i \in 1..Len(s)}

\* Letters outside ASCII: U+00C9 is E with acute, U+00E9 is e with acute.
NonAsciiUpper == {"U+00C9"}

NonAsciiLower == {"U+00E9"}

\* The four dash variants of the character class in _clean: hyphen U+2010,
\* en dash U+2013, em dash U+2014, minus sign U+2212.
DashVariants == {"U+2010", "U+2013", "U+2014", "U+2212"}

Whitespace == {" ", "\t"}

Punctuation == {"&", "'", "(", ")", "-", ".", "+", "|", "_"}

UpperSet == Range(AsciiUpper)

LowerSet == Range(AsciiLower)

DigitSet == Range(Digits)

Alphabet ==
  UpperSet \cup LowerSet \cup DigitSet \cup NonAsciiUpper
    \cup NonAsciiLower \cup DashVariants \cup Whitespace \cup Punctuation

\* Code points, for the order sorted() puts on strings.
CodePoint ==
  [c \in Alphabet |->
     IF c \in UpperSet THEN 64 + (CHOOSE i \in 1..26 : AsciiUpper[i] = c)
     ELSE IF c \in LowerSet THEN 96 + (CHOOSE i \in 1..26 : AsciiLower[i] = c)
     ELSE IF c \in DigitSet THEN 47 + (CHOOSE i \in 1..10 : Digits[i] = c)
     ELSE CASE c = "\t" -> 9 [] c = " " -> 32 [] c = "&" -> 38 [] c = "'" -> 39
            [] c = "(" -> 40 [] c = ")" -> 41 [] c = "+" -> 43 [] c = "-" -> 45
            [] c = "." -> 46 [] c = "_" -> 95 [] c = "|" -> 124
            [] c = "U+00C9" -> 201 [] c = "U+00E9" -> 233
            [] c = "U+2010" -> 8208 [] c = "U+2013" -> 8211
            [] c = "U+2014" -> 8212 [] c = "U+2212" -> 8722]

\* str.lower() and str.upper() on one character.
lower ==
  [c \in Alphabet |->
     IF c \in UpperSet THEN AsciiLower[CHOOSE i \in 1..26 : AsciiUpper[i] = c]
     ELSE IF c = "U+00C9" THEN "U+00E9" ELSE c]

upper ==
  [c \in Alphabet |->
     IF c \in LowerSet THEN AsciiUpper[CHOOSE i \in 1..26 : AsciiLower[i] = c]
     ELSE IF c = "U+00E9" THEN "U+00C9" ELSE c]

\* \w of a Python 3 str pattern: letters of any script, digits, underscore.
WordChars == UpperSet \cup LowerSet \cup DigitSet \cup NonAsciiUpper \cup NonAsciiLower \cup {"_"}

IsWordChar(c) == c \in WordChars

(***************************************************************************)
(* Strings                                                                 *)
(***************************************************************************)
MapChars(s, f) == [i \in 1..Len(s) |-> f[s[i]]]

RECURSIVE lstrip(_)
lstrip(s) == IF s # <<>> /\ s[1] \in Whitespace THEN lstrip(Tail(s)) ELSE s

RECURSIVE rstrip(_)
rstrip(s) ==
  IF s # <<>> /\ s[Len(s)] \in Whitespace THEN rstrip(SubSeq(s, 1, Len(s) - 1)) ELSE s

strip(s) == rstrip(lstrip(s))

\* str.replace(old, new): the occurrences of old, left to right, not overlapping.
RECURSIVE replace(_, _, _)
replace(s, old, new) ==
  IF Len(s) < Len(old) THEN s
  ELSE IF SubSeq(s, 1, Len(old)) = old
         THEN new \o replace(SubSeq(s, Len(old) + 1, Len(s)), old, new)
         ELSE <<s[1]>> \o replace(Tail(s), old, new)

\* re.sub(r"\s+", " ", s)
RECURSIVE CollapseWhitespace(_)
CollapseWhitespace(s) ==
  IF s = <<>> THEN <<>>
  ELSE IF s[1] \in Whitespace
         THEN <<" ">> \o CollapseWhitespace(lstrip(s))
         ELSE <<s[1]>> \o CollapseWhitespace(Tail(s))

\* s < t in the order of Python strings (code point by code point).
RECURSIVE StrLess(_, _)
StrLess(s, t) ==
  IF t = <<>> THEN FALSE
  ELSE IF s = <<>> THEN TRUE
  ELSE IF s[1] = t[1] THEN StrLess(Tail(s), Tail(t))
  ELSE CodePoint[s[1]] < CodePoint[t[1]]

(***************************************************************************)
(* model.py: ALIASES, _clean, _pair_key                                    *)
(***************************************************************************)
ALIASES ==
  << (* "uc santa barbara": "cal santa barbara" *)
     << <<"u","c"," ","s","a","n","t","a"," ","b","a","r","b","a","r","a">>,
        <<"c","a","l"," ","s","a","n","t","a"," ","b","a","r","b","a","r","a">> >>,
     (* "uc riverside": "cal riverside" *)
     << <<"u","c"," ","r","i","v","e","r","s","i","d","e">>,
        <<"c","a","l"," ","r","i","v","e","r","s","i","d","e">> >>,
     (* "st. john's": "st johns" *)
     << <<"s","t","."," ","j","o","h","n","'","s">>,
        <<"s","t"," ","j","o","h","n","s">> >>,
     (* "saint joseph's": "saint josephs" *)
     << <<"s","a","i","n","t"," ","j","o","s","e","p","h","'","s">>,
        <<"s","a","i","n","t"," ","j","o","s","e","p","h","s">> >>,
     (* "saint francis (pa)": "saint francis" *)
     << <<"s","a","i","n","t"," ","f","r","a","n","c","i","s"," ","(","p","a",")">>,
        <<"s","a","i","n","t"," ","f","r","a","n","c","i","s">> >>,
     (* "cal state northridge": "cal st. northridge" *)
     << <<"c","a","l"," ","s","t","a","t","e"," ","n","o","r","t","h","r","i","d","g","e">>,
        <<"c","a","l"," ","s","t","."," ","n","o","r","t","h","r","i","d","g","e">> >>,
     (* "csu northridge": "cal st. northridge" *)
     << <<"c","s","u"," ","n","o","r","t","h","r","i","d","g","e">>,
        <<"c","a","l"," ","s","t","."," ","n","o","r","t","h","r","i","d","g","e">> >>,
     (* "central connecticut state": "central connecticut" *)
     << <<"c","e","n","t","r","a","l"," ","c","o","n","n","e","c","t","i","c","u","t"," ","s","t","a","t","e">>,
        <<"c","e","n","t","r","a","l"," ","c","o","n","n","e","c","t","i","c","u","t">> >>,
     (* "william & mary": "william and mary" *)
     << <<"w","i","l","l","i","a","m"," ","&"," ","m","a","r","y">>,
        <<"w","i","l","l","i","a","m"," ","a","n","d"," ","m","a","r","y">> >>,
     (* "texas a&m-corpus christi": "texas a&m corpus chris" *)
     << <<"t","e","x","a","s"," ","a","&","m","-","c","o","r","p","u","s"," ","c","h","r","i","s","t","i">>,
        <<"t","e","x","a","s"," ","a","&","m"," ","c","o","r","p","u","s"," ","c","h","r","i","s">> >>,
     (* "texas a&m corpus christi": "texas a&m corpus chris" *)
     << <<"t","e","x","a","s"," ","a","&","m"," ","c","o","r","p","u","s"," ","c","h","r","i","s","t","i">>,
        <<"t","e","x","a","s"," ","a","&","m"," ","c","o","r","p","u","s"," ","c","h","r","i","s">> >>,
     (* "mount st. mary's": "mount st. mary's" *)
     << <<"m","o","u","n","t"," ","s","t","."," ","m","a","r","y","'","s">>,
        <<"m","o","u","n","t"," ","s","t","."," ","m","a","r","y","'","s">> >>
  >>

\* dict.get(s, s) on a table of <<key, value>> pairs with distinct keys.
DictGet(table, s) ==
  IF \E i \in 1..Len(table) : table[i][1] = s
    THEN table[CHOOSE i \in 1..Len(table) : table[i][1] = s][2]
    ELSE s

_clean(s) ==
  LET s1 == strip(s)
      s2 == MapChars(s1, [c \in Alphabet |-> IF c \in DashVariants THEN "-" ELSE c])
      s3 == replace(s2, <<"&">>, <<"a", "n", "d">>)
      s4 == MapChars(s3, [c \in Alphabet |->
                            IF IsWordChar(c) \/ c \in Whitespace \/ c \in {"-", "'"}
                              THEN c ELSE " "])
      s5 == MapChars(strip(CollapseWhitespace(s4)), lower)
  IN  DictGet(ALIASES, s5)

\* Mutant of _pair_key: the two keys are joined in the order given, not sorted.
_pair_key_unsorted(h, a) == _clean(h) \o <<"|">> \o _clean(a)

\* "|".join(sorted([h1, a1]))
_pair_key(h, a) ==
  LET h1 == _clean(h)
      a1 == _clean(a)
  IN  IF StrLess(a1, h1) THEN a1 \o <<"|">> \o h1 ELSE h1 \o <<"|">> \o a1

(***************************************************************************)
(* run.py: norm_team, ALIASES, canonical                                   *)
(***************************************************************************)
\* NONALNUM.sub("", s): drop every character outside [A-Z0-9].
NONALNUM_sub(s) == SelectSeq(s, LAMBDA c : c \in UpperSet \cup DigitSet)

norm_team(s) ==
  LET s1 == replace(s, <<"S", "t", ".">>, <<"S", "t", "a", "t", "e">>)
      s2 == replace(s1, <<"U", "C", "-">>, <<"U", "C", " ">>)
      s3 == replace(s2, <<" ", "C", "a", "l", " ">>,
                    <<" ", "C", "a", "l", "i", "f", "o", "r", "n", "i", "a", " ">>)
      s4 == replace(s3, <<"&">>, <<"a", "n", "d">>)
      s5 == replace(s4, <<"'">>, <<>>)
  IN  NONALNUM_sub(MapChars(s5, upper))

run_ALIASES ==
  << (* "OLEMISS": "MISSISSIPPI" *)
     << <<"O","L","E","M","I","S","S">>,
        <<"M","I","S","S","I","S","S","I","P","P","I">> >>,
     (* "CENTRALCONNECTICUTSTATE": "CENTRALCONNECTICUT" *)
     << <<"C","E","N","T","R","A","L","C","O","N","N","E","C","T","I","C","U","T","S","T","A","T","E">>,
        <<"C","E","N","T","R","A","L","C","O","N","N","E","C","T","I","C","U","T">> >>,
     (* "SAINTJOHNS": "STJOHNS" *)
     << <<"S","A","I","N","T","J","O","H","N","S">>,
        <<"S","T","J","O","H","N","S">> >>,
     (* "SAINTJOSEPHS": "STJOSEPHS" *)
     << <<"S","A","I","N","T","J","O","S","E","P","H","S">>,
        <<"S","T","J","O","S","E","P","H","S">> >>,
     (* "ILLCHICAGO": "UIC" *)
     << <<"I","L","L","C","H","I","C","A","G","O">>,
        <<"U","I","C">> >>,
     (* "TEXASAAMCORPUSCHRISTI": "TEXASAAMCORPUSCHRISTI" *)
     << <<"T","E","X","A","S","A","A","M","C","O","R","P","U","S","C","H","R","I","S","T","I">>,
        <<"T","E","X","A","S","A","A","M","C","O","R","P","U","S","C","H","R","I","S","T","I">> >>,
     (* "LOYOLOMARYMOUNT": "LOYOLAMARYMOUNT" *)
     << <<"L","O","Y","O","L","O","M","A","R","Y","M","O","U","N","T">>,
        <<"L","O","Y","O","L","A","M","A","R","Y","M","O","U","N","T">> >>,
     (* "UCALIFORNIASANTABARBARA": "UCSB" *)
     << <<"U","C","A","L","I","F","O","R","N","I","A","S","A","N","T","A","B","A","R","B","A","R","A">>,
        <<"U","C","S","B">> >>
  >>

canonical(name) == DictGet(run_ALIASES, norm_team(name))

(***************************************************************************)
(* Cells: <<v>> is a number, <<>> is NaN                                   *)
(***************************************************************************)
NaN == <<>>

Num(v) == <<v>>

isna(x) == x = NaN

notna(x) == x # NaN

\* A value of an object column that is not a number, such as the str "N/A" of
\* a feed: the one cell of length two.  pd.isna is False on it.
NonNumeric == <<0, 0>>

\* pd.to_numeric(column, errors="coerce") on one cell.
to_numeric(x) == IF x = NonNumeric THEN NaN ELSE x

\* x - y on one row of two columns raises TypeError when one side is a str and
\* the other side is not NaN; the exception ends the whole column operation.
raises_TypeError(x, y) == notna(x) /\ notna(y) /\ (x = NonNumeric \/ y = NonNumeric)

\* Float arithmetic: NaN in, NaN out.  On an object column the rows with a NaN
\* on either side are masked out and come out NaN, whatever the other side is.
Sub(x, y) ==
  IF isna(x) \/ isna(y) \/ x = NonNumeric \/ y = NonNumeric THEN NaN
  ELSE Num(x[1] - y[1])

Add(x, y) == IF isna(x) \/ isna(y) THEN NaN ELSE Num(x[1] + y[1])

Neg(x) == IF isna(x) THEN NaN ELSE Num(0 - x[1])

\* Comparisons with NaN are False.
Ge(x, y) == notna(x) /\ notna(y) /\ x[1] >= y[1]

Le(x, y) == notna(x) /\ notna(y) /\ x[1] <= y[1]

(***************************************************************************)
(* Number formatting                                                       *)
(***************************************************************************)
RECURSIVE DecimalDigits(_)
DecimalDigits(n) ==
  IF n < 10 THEN <<Digits[n + 1]>> ELSE DecimalDigits(n \div 10) \o <<Digits[(n % 10) + 1]>>

Abs(v) == IF v < 0 THEN 0 - v ELSE v

\* format(x, "+.1f") for a number of tenths v: sign, integer part, ".", tenth.
FormatSigned1(v) ==
  <<IF v < 0 THEN "-" ELSE "+">> \o DecimalDigits(Abs(v) \div 10) \o <<".">>
     \o DecimalDigits(Abs(v) % 10)

(***************************************************************************)
(* DataFrame helpers                                                       *)
(***************************************************************************)
RECURSIVE Concat(_)
Concat(ss) == IF ss = <<>> THEN <<>> ELSE Head(ss) \o Concat(Tail(ss))

\* DataFrame.merge(right, left_on=..., right_on=..., how="left") on the two key
\* columns: the pairs <<i, j>> of a left row and a right row with equal keys,
\* in left order and then right order; <<i, 0>> when no right row has the key
\* of left row i (its right columns are then NaN).
merge_left(left_keys, right_keys) ==
  Concat([i \in 1..Len(left_keys) |->
            LET m == SelectSeq([j \in 1..Len(right_keys) |-> j],
                               LAMBDA j : right_keys[j] = left_keys[i])
            IN  IF m = <<>> THEN << <<i, 0>> >>
                ELSE [k \in 1..Len(m) |-> <<i, m[k]>>]])

\* One sort column, descending, NaN last (na_position="last").
CellBefore(x, y) == notna(x) /\ (isna(y) \/ x[1] > y[1])

\* Several sort columns, all descending: the first column that differs decides.
RECURSIVE KeysBefore(_, _)
KeysBefore(k1, k2) ==
  IF k1 = <<>> THEN FALSE
  ELSE IF CellBefore(k1[1], k2[1]) THEN TRUE
  ELSE IF CellBefore(k2[1], k1[1]) THEN FALSE
  ELSE KeysBefore(Tail(k1), Tail(k2))

\* DataFrame.sort_values(by, ascending=False) on the rows' sort keys: the row
\* numbers in sorted order.  A row goes after the rows whose key is before its
\* key, and after the earlier rows that tie with it.
sort_values(keys) ==
  LET rank(i) == 1 + Cardinality({j \in 1..Len(keys) :
                                    \/ KeysBefore(keys[j], keys[i])
                                    \/ ~KeysBefore(keys[i], keys[j]) /\ j < i})
  IN  [p \in 1..Len(keys) |-> CHOOSE i \in 1..Len(keys) : rank(i) = p]

\* The output columns of both edge models.
KeepColumns(row) ==
  [home |-> row.home, away |-> row.away, home_spread |-> row.home_spread,
   h_AdjO |-> row.h_AdjO, h_AdjD |-> row.h_AdjD,
   a_AdjO |-> row.a_AdjO, a_AdjD |-> row.a_AdjD,
   model_home_margin |-> row.model_home_margin,
   market_home_margin |-> row.market_home_margin,
   edge_pts |-> row.edge_pts, ticket |-> row.ticket]

(***************************************************************************)
(* model.py: _prep_ratings, compute_edges                                  *)
(***************************************************************************)
_prep_ratings(rt) ==
  [i \in 1..Len(rt) |->
     [Team |-> rt[i].Team, team_clean |-> _clean(rt[i].Team),
      AdjO |-> rt[i].AdjO, AdjD |-> rt[i].AdjD,
      Net |-> Sub(rt[i].AdjO, rt[i].AdjD)]]

\* df["Net"] = df["AdjO"] - df["AdjD"] raises on a row with a rating that is
\* not a number.
_prep_ratings_raises(rt) ==
  \E i \in 1..Len(rt) : raises_TypeError(rt[i].AdjO, rt[i].AdjD)

\* Mutant of model_home_margin: a missing Net counts as zero (fillna(0)).
model_home_margin_fillna(h_Net, a_Net, hca) ==
  Add(Sub(IF isna(h_Net) THEN Num(0) ELSE h_Net, IF isna(a_Net) THEN Num(0) ELSE a_Net),
      Num(hca))

\* o["model_home_margin"] = (o["h_Net"] - o["a_Net"]) + hca_points
model_home_margin(h_Net, a_Net, hca) == Add(Sub(h_Net, a_Net), Num(hca))

\* Mutant of edge_pts: the market margin is added instead of subtracted.
edge_pts_added(mm, mkt) == Add(mm, mkt)

\* o["edge_pts"] = o["model_home_margin"] - o["market_home_margin"]
edge_pts(mm, mkt) == Sub(mm, mkt)

\* compute_edges._ticket: the ticket of one row, or the exception it raises.
\* The format spec "+ .1f" of the away branch is not a valid format spec:
\* formatting a float with it raises ValueError.
_ticket(row, thr) ==
  LET mhm == row.market_home_margin
  IN  IF isna(mhm) THEN [raised |-> FALSE, value |-> <<>>]
      ELSE IF Ge(row.edge_pts, Num(thr))
        THEN [raised |-> FALSE,
              value |-> replace(row.home \o <<" ">> \o FormatSigned1(mhm[1]),
                                <<"+", "-">>, <<"-">>)]
      ELSE IF Le(row.edge_pts, Num(0 - thr))
        THEN [raised |-> TRUE, value |-> <<>>]
      ELSE [raised |-> FALSE, value |-> <<>>]

\* Mutant of has_line_sort_key: the sort is on edge_pts alone.
edge_only_sort_key(row) == <<row.edge_pts>>

\* The sort key of compute_edges: ["__has_line", "edge_pts"], both descending.
has_line_sort_key(row) ==
  <<IF notna(row.market_home_margin) THEN Num(1) ELSE Num(0), row.edge_pts>>

\* o["home_clean"], o["away_clean"], o["__key"]
with_clean_names(od) ==
  [i \in 1..Len(od) |->
     od[i] @@ [home_clean |-> _clean(od[i].home),
               away_clean |-> _clean(od[i].away),
               __key |-> _pair_key(od[i].home, od[i].away)]]

\* The columns h_AdjO, h_AdjD, h_Net of the ratings row a merge pairs with an odds
\* row; NaN when it pairs none (j = 0).
home_columns(r, j) ==
  IF j = 0 THEN [h_AdjO |-> NaN, h_AdjD |-> NaN, h_Net |-> NaN]
  ELSE [h_AdjO |-> r[j].AdjO, h_AdjD |-> r[j].AdjD, h_Net |-> r[j].Net]

away_columns(r, j) ==
  IF j = 0 THEN [a_AdjO |-> NaN, a_AdjD |-> NaN, a_Net |-> NaN]
  ELSE [a_AdjO |-> r[j].AdjO, a_AdjD |-> r[j].AdjD, a_Net |-> r[j].Net]

\* o.merge(r.add_prefix("h_"), left_on="home_clean", right_on="h_team_clean", how="left")
merge_home(o, r) ==
  LET hp == merge_left([i \in 1..Len(o) |-> o[i].home_clean],
                       [j \in 1..Len(r) |-> r[j].team_clean])
  IN  [k \in 1..Len(hp) |-> o[hp[k][1]] @@ home_columns(r, hp[k][2])]

\* o.merge(r.add_prefix("a_"), left_on="away_clean", right_on="a_team_clean", how="left")
merge_away(o, r) ==
  LET ap == merge_left([i \in 1..Len(o) |-> o[i].away_clean],
                       [j \in 1..Len(r) |-> r[j].team_clean])
  IN  [k \in 1..Len(ap) |-> o[ap[k][1]] @@ away_columns(r, ap[k][2])]

\* The columns model_home_margin and edge_pts of one joined row.
scored_row(row, hca) ==
  row @@ [model_home_margin |-> model_home_margin(row.h_Net, row.a_Net, hca),
          edge_pts |-> edge_pts(model_home_margin(row.h_Net, row.a_Net, hca),
                                row.market_home_margin)]

\* The frame o of compute_edges after the two merges and the margin and edge
\* columns, before the ticket column.
edges_frame(rt, od, hca) ==
  LET joined == merge_away(merge_home(with_clean_names(od), _prep_ratings(rt)),
                           _prep_ratings(rt))
  IN  [i \in 1..Len(joined) |-> scored_row(joined[i], hca)]

\* out = o[[...]] with the ticket column; t[i] is the outcome of _ticket on row i.
tidy_frame(o, t) == [i \in 1..Len(o) |-> KeepColumns(o[i] @@ [ticket |-> t[i].value])]

\* out.sort_values(["__has_line", "edge_pts"], ascending=[False, False])
sorted_by_line_and_edge(tidy) ==
  LET order == sort_values([i \in 1..Len(tidy) |-> has_line_sort_key(tidy[i])])
  IN  [p \in 1..Len(tidy) |-> tidy[order[p]]]

\* The ticket column and what follows it: the table, or the exception of a row
\* whose ticket raises (DataFrame.apply does not catch it).
tickets_and_sort(o, thr) ==
  LET t == [i \in 1..Len(o) |-> _ticket(o[i], thr)]
  IN  IF \E i \in 1..Len(o) : t[i].raised
        THEN [raised |-> TRUE, table |-> <<>>]
        ELSE [raised |-> FALSE, table |-> sorted_by_line_and_edge(tidy_frame(o, t))]

\* o["model_home_margin"] - o["market_home_margin"] raises on a row with a
\* model margin and a market margin that is not a number.
edge_pts_raises(o) ==
  \E i \in 1..Len(o) : raises_TypeError(o[i].model_home_margin, o[i].market_home_margin)

compute_edges(rt, od, hca, thr) ==
  IF _prep_ratings_raises(rt) THEN [raised |-> TRUE, table |-> <<>>]
  ELSE IF edge_pts_raises(edges_frame(rt, od, hca)) THEN [raised |-> TRUE, table |-> <<>>]
  ELSE tickets_and_sort(edges_frame(rt, od, hca), thr)

(***************************************************************************)
(* run.py: _coerce_ratings, _coerce_odds, join_and_score                   *)
(***************************************************************************)
\* Numeric columns (pd.to_numeric), TEAM_KEY, and dropna on the numeric columns.
_coerce_ratings(df) ==
  SelectSeq([i \in 1..Len(df) |->
               [Team |-> df[i].Team, AdjO |-> to_numeric(df[i].AdjO),
                AdjD |-> to_numeric(df[i].AdjD),
                TEAM_KEY |-> canonical(df[i].Team)]],
            LAMBDA x : notna(x.AdjO) /\ notna(x.AdjD))

\* The columns home, away, home_spread only; names stripped; home_spread
\* numeric (pd.to_numeric); dropna on home_spread; HOME_KEY and AWAY_KEY.
_coerce_odds(df) ==
  LET kept == SelectSeq([i \in 1..Len(df) |->
                           [home |-> strip(df[i].home), away |-> strip(df[i].away),
                            home_spread |-> to_numeric(df[i].home_spread)]],
                        LAMBDA x : notna(x.home_spread))
  IN  [i \in 1..Len(kept) |->
         kept[i] @@ [HOME_KEY |-> canonical(kept[i].home),
                     AWAY_KEY |-> canonical(kept[i].away)]]

\* df["model_home_margin"] = (h_AdjO - a_AdjD) - (a_AdjO - h_AdjD) + HCA_PTS
run_model_home_margin(h_AdjO, h_AdjD, a_AdjO, a_AdjD, hca) ==
  Add(Sub(Sub(h_AdjO, a_AdjD), Sub(a_AdjO, h_AdjD)), Num(hca))

\* df["market_home_margin"] = -df["home_spread"]
run_market_home_margin(home_spread) == Neg(home_spread)

\* df["edge_pts"] = df["model_home_margin"] - df["market_home_margin"]
run_edge_pts(mm, mkt) == Sub(mm, mkt)

\* join_and_score.fmt_ticket: formatting a float never raises, so the except
\* branch is not taken; NaN formats as "+nan".
fmt_ticket(row) ==
  row.home \o <<" ">> \o
    (IF isna(row.home_spread) THEN <<"+", "n", "a", "n">>
     ELSE FormatSigned1(row.home_spread[1]))

\* The columns h_AdjO, h_AdjD of the ratings row a merge pairs with an odds row;
\* NaN when it pairs none (j = 0).
run_home_columns(rt, j) ==
  IF j = 0 THEN [h_AdjO |-> NaN, h_AdjD |-> NaN]
  ELSE [h_AdjO |-> rt[j].AdjO, h_AdjD |-> rt[j].AdjD]

run_away_columns(rt, j) ==
  IF j = 0 THEN [a_AdjO |-> NaN, a_AdjD |-> NaN]
  ELSE [a_AdjO |-> rt[j].AdjO, a_AdjD |-> rt[j].AdjD]

\* odds.merge(r_home, on="HOME_KEY", how="left")
run_merge_home(od, rt) ==
  LET hp == merge_left([i \in 1..Len(od) |-> od[i].HOME_KEY],
                       [j \in 1..Len(rt) |-> rt[j].TEAM_KEY])
  IN  [k \in 1..Len(hp) |-> od[hp[k][1]] @@ run_home_columns(rt, hp[k][2])]

\* .merge(r_away, on="AWAY_KEY", how="left")
run_merge_away(df, rt) ==
  LET ap == merge_left([i \in 1..Len(df) |-> df[i].AWAY_KEY],
                       [j \in 1..Len(rt) |-> rt[j].TEAM_KEY])
  IN  [k \in 1..Len(ap) |-> df[ap[k][1]] @@ run_away_columns(rt, ap[k][2])]

\* The columns model_home_margin, market_home_margin, edge_pts and ticket of one
\* joined row, trimmed to the columns kept.
run_scored_row(row, hca) ==
  KeepColumns(
    row @@ [model_home_margin |->
              run_model_home_margin(row.h_AdjO, row.h_AdjD, row.a_AdjO, row.a_AdjD, hca),
            market_home_margin |-> run_market_home_margin(row.home_spread),
            edge_pts |->
              run_edge_pts(
                run_model_home_margin(row.h_AdjO, row.h_AdjD, row.a_AdjO, row.a_AdjD, hca),
                run_market_home_margin(row.home_spread)),
            ticket |-> fmt_ticket(row)])

\* df.sort_values("edge_pts", ascending=False, na_position="last")
sorted_by_edge(df) ==
  LET order == sort_values([i \in 1..Len(df) |-> <<df[i].edge_pts>>])
  IN  [p \in 1..Len(df) |-> df[order[p]]]

run_scored_frame(df, hca) == [i \in 1..Len(df) |-> run_scored_row(df[i], hca)]

join_and_score(rt, od, hca) ==
  sorted_by_edge(run_scored_frame(run_merge_away(run_merge_home(od, rt), rt), hca))

(***************************************************************************)
(* Inputs                                                                  *)
(***************************************************************************)
MaxRatings == 2

MaxOdds == 2

Duke == <<"D", "u", "k", "e">>

UCRiverside == <<"U", "C", " ", "R", "i", "v", "e", "r", "s", "i", "d", "e">>

CalRiverside == <<"C", "a", "l", " ", "R", "i", "v", "e", "r", "s", "i", "d", "e">>

UCDashRiverside == <<"U", "C", "-", "R", "i", "v", "e", "r", "s", "i", "d", "e">>

\* Rows of a ratings feed (Team, AdjO, AdjD).  "UC Riverside" and
\* "Cal Riverside" have the same _clean key; "UC Riverside" and "UC-Riverside"
\* have the same canonical key.
RatingRows ==
  { [Team |-> Duke,            AdjO |-> Num(1200), AdjD |-> Num(950)],
    [Team |-> UCRiverside,     AdjO |-> Num(1150), AdjD |-> Num(964)],
    [Team |-> CalRiverside,    AdjO |-> Num(1180), AdjD |-> Num(954)],
    [Team |-> UCDashRiverside, AdjO |-> Num(1100), AdjD |-> Num(1000)] }

\* <<home, away>>.  The first two are one pair_key (reversed, and under another
\* spelling); the third is another pair_key.
Matchups == { <<Duke, UCRiverside>>, <<CalRiverside, Duke>>, <<Duke, UCDashRiverside>> }

\* <<home_spread, market_home_margin>> of a market line: the two conventions of
\* the feeds (margin = -spread, margin = spread) and the unlined game.
Lines == { <<Num(-50), Num(50)>>, <<Num(-50), Num(-50)>>, <<NaN, NaN>> }

OddsRows ==
  { [home |-> m[1], away |-> m[2], home_spread |-> l[1], market_home_margin |-> l[2]] :
      m \in Matchups, l \in Lines }

HcaValues == {6}

ThresholdValues == {20}

Tables(rows, n) == UNION { [1..k -> rows] : k \in 0..n }

\* A ratings snapshot lists a team once; two of its rows may still be one team
\* under two spellings.
RatingTables ==
  { t \in Tables(RatingRows, MaxRatings) : \A i, j \in 1..Len(t) : t[i] = t[j] => i = j }

(***************************************************************************)
(* State machine                                                           *)
(*   pc = "start": the two feeds are in memory.  From there either         *)
(*   model.compute_edges is called on them, or run.main runs its pipeline  *)
(*   (load_torvik, load_odds, join_and_score).                             *)
(***************************************************************************)
Init ==
  /\ ratings \in RatingTables
  /\ odds \in Tables(OddsRows, MaxOdds)
  /\ hca_points \in HcaValues
  /\ edge_threshold \in ThresholdValues
  /\ pc = "start"
  /\ run_ratings = <<>>
  /\ run_odds = <<>>
  /\ out = <<>>
  /\ names = <<>>
  /\ cleaned = <<>>
  /\ recleaned = <<>>
  /\ pair_keys = <<>>

\* A call of model.compute_edges on the two feeds: it returns its table, or
\* raises and returns nothing.  On an odds frame without rows DataFrame.apply
\* calls _ticket on no row and the call returns the empty table.
ComputeEdges ==
  /\ pc = "start"
  /\ LET res == compute_edges(ratings, odds, hca_points, edge_threshold)
     IN  /\ pc' = IF res.raised THEN "edges_raised" ELSE "edges_returned"
         /\ out' = res.table
  /\ UNCHANGED <<ratings, odds, hca_points, edge_threshold, run_ratings, run_odds>>
  /\ UNCHANGED name_vars

\* main: ratings = load_torvik(), which ends in _coerce_ratings.
LoadTorvik ==
  /\ pc = "start"
  /\ run_ratings' = _coerce_ratings(ratings)
  /\ pc' = "ratings_loaded"
  /\ UNCHANGED <<ratings, odds, hca_points, edge_threshold, run_odds, out>>
  /\ UNCHANGED name_vars

\* main: odds = load_odds(), which ends in _coerce_odds.
LoadOdds ==
  /\ pc = "ratings_loaded"
  /\ run_odds' = _coerce_odds(odds)
  /\ pc' = "odds_loaded"
  /\ UNCHANGED <<ratings, odds, hca_points, edge_threshold, run_ratings, out>>
  /\ UNCHANGED name_vars

\* main: if odds.empty, publish the index without a table and return.
MainNoOdds ==
  /\ pc = "odds_loaded"
  /\ run_odds = <<>>
  /\ pc' = "no_csv"
  /\ UNCHANGED <<ratings, odds, hca_points, edge_threshold, run_ratings, run_odds, out>>
  /\ UNCHANGED name_vars

\* main: df = join_and_score(ratings, odds), with HCA_PTS the home-court points.
JoinAndScore ==
  /\ pc = "odds_loaded"
  /\ run_odds # <<>>
  /\ out' = join_and_score(run_ratings, run_odds, hca_points)
  /\ pc' = "scored"
  /\ UNCHANGED <<ratings, odds, hca_points, edge_threshold, run_ratings, run_odds>>
  /\ UNCHANGED name_vars

Next ==
  \/ ComputeEdges
  \/ LoadTorvik
  \/ LoadOdds
  \/ MainNoOdds
  \/ JoinAndScore

Spec == Init /\ [][Next]_vars

(***************************************************************************)
(* Feeds with values that are not numbers                                  *)
(*   The same calls, on feeds in which a rating or a spread may be a str   *)
(*   such as "N/A" instead of a number.                                    *)
(***************************************************************************)
\* Rows of a ratings feed; the AdjO of "UC-Riverside" is not a number.
MalformedRatingRows ==
  { [Team |-> Duke,            AdjO |-> Num(1200),  AdjD |-> Num(950)],
    [Team |-> UCRiverside,     AdjO |-> Num(1150),  AdjD |-> Num(964)],
    [Team |-> UCDashRiverside, AdjO |-> NonNumeric, AdjD |-> Num(1000)] }

MalformedMatchups == { <<Duke, UCRiverside>>, <<Duke, UCDashRiverside>> }

\* <<home_spread, market_home_margin>>: a numeric line, a line whose spread is
\* not a number, and a line with neither value a number.
MalformedLines ==
  { <<Num(-50), Num(50)>>, <<NonNumeric, Num(50)>>, <<NonNumeric, NonNumeric>> }

MalformedOddsRows ==
  { [home |-> m[1], away |-> m[2], home_spread |-> l[1], market_home_margin |-> l[2]] :
      m \in MalformedMatchups, l \in MalformedLines }

MalformedRatingTables ==
  { t \in Tables(MalformedRatingRows, MaxRatings) :
      \A i, j \in 1..Len(t) : t[i] = t[j] => i = j }

MalformedInit ==
  /\ ratings \in MalformedRatingTables
  /\ odds \in Tables(MalformedOddsRows, MaxOdds)
  /\ hca_points \in HcaValues
  /\ edge_threshold \in ThresholdValues
  /\ pc = "start"
  /\ run_ratings = <<>>
  /\ run_odds = <<>>
  /\ out = <<>>
  /\ names = <<>>
  /\ cleaned = <<>>
  /\ recleaned = <<>>
  /\ pair_keys = <<>>

MalformedSpec == MalformedInit /\ [][Next]_vars

(***************************************************************************)
(* The name functions on their own                                         *)
(*   _clean and _pair_key are pure functions of the names they are given.  *)
(*   pc = "names": a pair of raw names <<h, a>> is in memory.  From there  *)
(*   either each name is cleaned, and the two keys are cleaned once more,  *)
(*   or the pair key is taken of <<h, a>> and of <<a, h>>.                 *)
(***************************************************************************)
MaxNameLen == 2

\* Characters of a raw name: letters of both cases, whitespace, punctuation that
\* _clean drops, replaces or keeps, a letter outside ASCII and a dash variant.
NameChars == {"a", "B", " ", ".", "&", "'", "-", "_", "U+00C9", "U+2013"}

Strings(chars, n) == UNION { [1..k -> chars] : k \in 0..n }

\* The entries <<k, v>> of model.ALIASES, read as two spellings of one school.
AliasPairs == Range(ALIASES)

NamePairs == AliasPairs \cup (Strings(NameChars, MaxNameLen) \X Strings(NameChars, 1))

NameInit ==
  /\ names \in NamePairs
  /\ pc = "names"
  /\ cleaned = <<>>
  /\ recleaned = <<>>
  /\ pair_keys = <<>>
  /\ ratings = <<>>
  /\ odds = <<>>
  /\ hca_points \in HcaValues
  /\ edge_threshold \in ThresholdValues
  /\ run_ratings = <<>>
  /\ run_odds = <<>>
  /\ out = <<>>

\* h1, a1 = _clean(h), _clean(a)
Clean ==
  /\ pc = "names"
  /\ cleaned' = <<_clean(names[1]), _clean(names[2])>>
  /\ pc' = "cleaned"
  /\ UNCHANGED <<names, recleaned, pair_keys>>
  /\ UNCHANGED pipeline_vars

\* _clean on the keys that _clean returned.
CleanAgain ==
  /\ pc = "cleaned"
  /\ recleaned' = <<_clean(cleaned[1]), _clean(cleaned[2])>>
  /\ pc' = "recleaned"
  /\ UNCHANGED <<names, cleaned, pair_keys>>
  /\ UNCHANGED pipeline_vars

\* _pair_key(h, a) and _pair_key(a, h)
PairKey ==
  /\ pc = "names"
  /\ pair_keys' = <<_pair_key(names[1], names[2]), _pair_key(names[2], names[1])>>
  /\ pc' = "keyed"
  /\ UNCHANGED <<names, cleaned, recleaned>>
  /\ UNCHANGED pipeline_vars

NameNext ==
  \/ Clean
  \/ CleanAgain
  \/ PairKey

NameSpec == NameInit /\ [][NameNext]_vars

(***************************************************************************)
(* Properties                                                              *)
(***************************************************************************)
\* The rows of the table that model.compute_edges or run.join_and_score returned.
OutRows == Range(out)

EdgesReturned == pc = "edges_returned"

Scored == pc = "scored"

\* The row has the four ratings of its two teams.
BothRated(row) ==
  notna(row.h_AdjO) /\ notna(row.h_AdjD) /\ notna(row.a_AdjO) /\ notna(row.a_AdjD)

\* Some row of the ratings table given to compute_edges matches the name.
HasRating(name) == \E i \in 1..Len(ratings) : _clean(ratings[i].Team) = _clean(name)

\* Some row of the ratings table given to join_and_score matches the name.
HasRunRating(name) ==
  \E i \in 1..Len(run_ratings) : run_ratings[i].TEAM_KEY = canonical(name)

\* C1 (as claimed): in a table compute_edges returns, a row with both teams rated
\* has model_home_margin = (h_AdjO - a_AdjD) - (a_AdjO - h_AdjD) + hca_points,
\* the value join_and_score computes.
C1_MarginIsOffenseVsDefenseForm ==
  EdgesReturned =>
    \A row \in OutRows :
      BothRated(row) =>
        row.model_home_margin =
          Num((row.h_AdjO[1] - row.a_AdjD[1]) - (row.a_AdjO[1] - row.h_AdjD[1])
              + hca_points)

\* C2 (as claimed): in a table compute_edges returns, a row with
\* edge_pts >= edge_threshold has the ticket "<home> <home_spread:+.1f>".
C2_HomeTicketShowsHomeSpread ==
  EdgesReturned =>
    \A row \in OutRows :
      Ge(row.edge_pts, Num(edge_threshold)) =>
        /\ notna(row.home_spread)
        /\ row.ticket = row.home \o <<" ">> \o FormatSigned1(row.home_spread[1])

\* C3 (as claimed): a row that compute_edges scores with
\* edge_pts <= -edge_threshold comes out with the ticket
\* "<away> <-home_spread:+.1f>".
C3_AwayTicketShowsNegatedSpread ==
  pc \in {"edges_returned", "edges_raised"} =>
    LET o == edges_frame(ratings, odds, hca_points)
    IN  \A i \in 1..Len(o) :
          Le(o[i].edge_pts, Num(0 - edge_threshold)) =>
            \E row \in OutRows :
              /\ row.home = o[i].home
              /\ row.away = o[i].away
              /\ row.home_spread = o[i].home_spread
              /\ notna(row.home_spread)
              /\ row.ticket =
                   row.away \o <<" ">> \o FormatSigned1(0 - row.home_spread[1])

\* C4 (as claimed): in a table compute_edges or join_and_score returns, a row
\* whose edge_pts is absent or strictly between -edge_threshold and
\* edge_threshold has the empty ticket.
C4_SmallOrAbsentEdgeHasNoTicket ==
  (EdgesReturned \/ Scored) =>
    \A row \in OutRows :
      (\/ isna(row.edge_pts)
       \/ /\ row.edge_pts[1] < edge_threshold
          /\ row.edge_pts[1] > 0 - edge_threshold)
        => row.ticket = <<>>

\* C5: in a table compute_edges or join_and_score returns, a row whose home or
\* away team has no matching rating has neither a model_home_margin nor an
\* edge_pts.
C5_MissingRatingGivesNoMarginNoEdge ==
  /\ EdgesReturned =>
       \A row \in OutRows :
         (~HasRating(row.home) \/ ~HasRating(row.away)) =>
           isna(row.model_home_margin) /\ isna(row.edge_pts)
  /\ Scored =>
       \A row \in OutRows :
         (~HasRunRating(row.home) \/ ~HasRunRating(row.away)) =>
           isna(row.model_home_margin) /\ isna(row.edge_pts)

\* C5 witness: compute_edges returned a lined row with the home team rated and
\* the away team not.
C5_Witness ==
  /\ EdgesReturned
  /\ \E row \in OutRows :
       /\ HasRating(row.home)
       /\ ~HasRating(row.away)
       /\ notna(row.h_AdjO)
       /\ notna(row.market_home_margin)
       /\ isna(row.edge_pts)

\* C6 (as claimed): a market line without home_spread is in the final output of
\* the pipeline, with market_home_margin and edge_pts absent and no ticket.
C6_UnlinedGameIsRetained ==
  pc \in {"edges_returned", "scored", "no_csv"} =>
    \A i \in 1..Len(odds) :
      isna(odds[i].home_spread) =>
        \E row \in OutRows :
          /\ row.home = strip(odds[i].home)
          /\ row.away = strip(odds[i].away)
          /\ isna(row.home_spread)
          /\ isna(row.market_home_margin)
          /\ isna(row.edge_pts)
          /\ row.ticket = <<>>

\* The market lines have pairwise distinct pair keys.
DistinctPairKeys ==
  \A i, j \in 1..Len(odds) :
    _pair_key(odds[i].home, odds[i].away) = _pair_key(odds[j].home, odds[j].away)
      => i = j

\* C7 (as claimed): when the market lines have pairwise distinct pair keys, the
\* table compute_edges or join_and_score returns has exactly one row per line.
C7_OneRowPerMarketLine ==
  ((EdgesReturned \/ Scored) /\ DistinctPairKeys) =>
    /\ Len(out) = Len(odds)
    /\ \A i \in 1..Len(odds) :
         Cardinality({k \in 1..Len(out) :
                        /\ out[k].home = strip(odds[i].home)
                        /\ out[k].away = strip(odds[i].away)
                        /\ out[k].home_spread = odds[i].home_spread}) = 1

\* C8 (as claimed): the table compute_edges returns has exactly one row for the
\* pair key of each market line.
C8_OneRowPerPairKey ==
  EdgesReturned =>
    \A i \in 1..Len(odds) :
      Cardinality({k \in 1..Len(out) :
                     _pair_key(out[k].home, out[k].away)
                       = _pair_key(odds[i].home, odds[i].away)}) = 1

C10_EdgeIsModelMinusMarket ==
  (EdgesReturned \/ Scored) =>
    \A row \in OutRows :
      (BothRated(row) /\ notna(row.market_home_margin)) =>
        /\ notna(row.model_home_margin)
        /\ row.edge_pts = Num(row.model_home_margin[1] - row.market_home_margin[1])

\* C10 witness: compute_edges returned a row with both teams rated, a market
\* margin other than zero and an edge.
C10_Witness ==
  /\ EdgesReturned
  /\ \E row \in OutRows :
       /\ BothRated(row)
       /\ notna(row.market_home_margin)
       /\ row.market_home_margin[1] # 0
       /\ notna(row.edge_pts)

\* C11 (as claimed): in a table compute_edges or join_and_score returns, a row
\* with a home_spread has market_home_margin = -home_spread.
C11_MarketMarginIsNegatedSpread ==
  (EdgesReturned \/ Scored) =>
    \A row \in OutRows :
      notna(row.home_spread) => row.market_home_margin = Neg(row.home_spread)

\* C12 (as claimed): _clean is idempotent: cleaning a key that _clean returned
\* gives that key again.
C12_CleanIsIdempotent ==
  pc = "recleaned" => recleaned = cleaned

\* C13 (as claimed): no call of compute_edges on a ratings table with numeric
\* ratings and an odds table with numeric or absent spreads and margins raises.
C13_ComputeEdgesReturnsNormally ==
  pc # "edges_raised"

\* The two feeds with every value that is not a number replaced by an absent
\* value.
RatingsWithAbsent ==
  [i \in 1..Len(ratings) |->
     [Team |-> ratings[i].Team, AdjO |-> to_numeric(ratings[i].AdjO),
      AdjD |-> to_numeric(ratings[i].AdjD)]]

OddsWithAbsent ==
  [i \in 1..Len(odds) |->
     [home |-> odds[i].home, away |-> odds[i].away,
      home_spread |-> to_numeric(odds[i].home_spread),
      market_home_margin |-> to_numeric(odds[i].market_home_margin)]]

\* C14 (as claimed): a rating or a spread that is not a number is treated as
\* absent by compute_edges: whenever the call on the feeds with those values
\* absent returns a table, the call on the feeds as given returns that table
\* too, and does not raise.
C14_NonNumericIsTreatedAsAbsent ==
  pc \in {"edges_returned", "edges_raised"} =>
    (~compute_edges(RatingsWithAbsent, OddsWithAbsent, hca_points, edge_threshold).raised
       => /\ pc = "edges_returned"
          /\ out = compute_edges(RatingsWithAbsent, OddsWithAbsent,
                                 hca_points, edge_threshold).table)

\* C15: _pair_key(a, b) = _pair_key(b, a) for every pair of names.
C15_PairKeySymmetric ==
  pc = "keyed" => pair_keys[1] = pair_keys[2]

\* C15 witness: the pair key was taken of two names whose keys differ and are
\* given in descending order, so that the key of <<h, a>> starts with the key
\* of a.
C15_Witness ==
  /\ pc = "keyed"
  /\ StrLess(_clean(names[2]), _clean(names[1]))
  /\ _clean(names[2]) # <<>>
  /\ pair_keys[1] = _clean(names[2]) \o <<"|">> \o _clean(names[1])

\* The characters the canonical key is claimed to be made of.
KeyChars == LowerSet \cup DigitSet \cup {" ", "-", "'"}

\* C16 (as claimed): every character of a key _clean returns is a lowercase
\* ASCII letter, a digit, a space, an ASCII hyphen or an apostrophe, and no two
\* spaces are adjacent.
C16_KeyCharsAreCanonical ==
  pc = "cleaned" =>
    \A n \in 1..Len(cleaned) :
      /\ \A i \in 1..Len(cleaned[n]) : cleaned[n][i] \in KeyChars
      /\ \A i \in 1..(Len(cleaned[n]) - 1) :
           ~(cleaned[n][i] = " " /\ cleaned[n][i + 1] = " ")

\* C17 (as claimed): for every entry k -> v of ALIASES, the spelling k and the
\* spelling v have the same key: _clean(k) = _clean(v).
C17_EveryAliasTakesEffect ==
  (pc = "cleaned" /\ names \in AliasPairs) => cleaned[1] = cleaned[2]

====
